---- MODULE Spec2Model ----
(***************************************************************************)
(* depgraph: node selection, cycle detection and refinement, leaves-first  *)
(* leveling and the DOT / leveled-text renderers of graph_output.go.       *)
(*                                                                         *)
(* Module paths are the numbers 1..NumIds; the numeric order stands for    *)
(* the lexicographic order sort.Strings gives the paths.  A Go map is a    *)
(* TLA+ function; a `for k := range m` loop whose body's effect depends on *)
(* the visiting order is modelled one visit per step, the visited key      *)
(* chosen freely among the keys not yet visited.                           *)
(***************************************************************************)
EXTENDS Integers, Sequences, FiniteSets, TLC

\* ---- bounds of the model ----
NumIds == 3
MaxEdges == 4

Ids == 1..NumIds
NoPath == 0

\* ---- generic helpers ----
Min(S) == CHOOSE x \in S : \A y \in S : x <= y

RECURSIVE SortStrings(_)
SortStrings(S) ==
  IF S = {} THEN <<>> ELSE <<Min(S)>> \o SortStrings(S \ {Min(S)})

Range(s) == {s[i] : i \in 1..Len(s)}

Orders(S) ==
  {p \in [1..Cardinality(S) -> S] : \A i, j \in 1..Cardinality(S) : i # j => p[i] # p[j]}

RECURSIVE SumOver(_, _)
SumOver(f, S) ==
  IF S = {} THEN 0
  ELSE LET x == CHOOSE y \in S : TRUE IN f[x] + SumOver(f, S \ {x})

\* ---- ModuleInfo and the scan result ----
ModuleInfo(p, fork, deps) ==
  [Path |-> p, RepoPath |-> p, IsFork |-> fork,
   OriginalModulePath |-> IF fork THEN p ELSE NoPath,
   OwnerIdx |-> 0, Deps |-> deps, Fetched |-> TRUE]

ModuleMaps ==
  UNION {
    { m \in [keys -> [IsFork : BOOLEAN, Deps : SUBSET Ids]] :
        /\ \A p \in keys : p \notin m[p].Deps
        /\ SumOver([p \in keys |-> Cardinality(m[p].Deps)], keys) <= MaxEdges }
    : keys \in SUBSET Ids }

ScanResult(m) == [p \in DOMAIN m |-> ModuleInfo(p, m[p].IsFork, m[p].Deps)]

AllModulePaths(mods) == DOMAIN mods \cup UNION {mods[p].Deps : p \in DOMAIN mods}

\* A repository list whose scan gives the record map mods: one repository
\* per record, in path order.
ReposOf(mods) ==
  LET ks == SortStrings(DOMAIN mods) IN
  [i \in DOMAIN ks |-> [RepoPath |-> mods[ks[i]].RepoPath, Path |-> ks[i],
                         IsFork |-> mods[ks[i]].IsFork, Deps |-> mods[ks[i]].Deps]]

VARIABLES
  repoList, repoIdx,
  modulesFoundInOwners, allModulePaths, noExt,
  pc, todo,
  nodesToGraph, referencedModules, forksDependingOnNonFork,
  bidirPairs, isBidirNode,
  nodesInCycles, initialInDegree, reverseAdj, iteration,
  runningInDegree, queue, processedNodes, processedForOutput, levelCounter,
  output, unprocessed,
  dotNodes, dotEdges,
  dotArgs, dotText,
  useCache, cacheFiles, calls,
  files, flagArgs, stdout, extracted

detVars == <<todo, nodesToGraph, referencedModules, forksDependingOnNonFork>>
bidirVars == <<bidirPairs, isBidirNode>>
cycleVars == <<nodesInCycles, initialInDegree, reverseAdj, iteration>>
levelVars == <<runningInDegree, queue, processedNodes, processedForOutput, levelCounter,
               output, unprocessed>>
dotVars == <<dotNodes, dotEdges>>
sideVars == <<dotArgs, dotText, useCache, cacheFiles, calls, files, flagArgs, stdout, extracted>>

vars == <<repoList, repoIdx, modulesFoundInOwners, allModulePaths, noExt, pc, detVars, bidirVars, cycleVars,
          levelVars, dotVars, sideVars>>

inputs == <<repoList, repoIdx, modulesFoundInOwners, allModulePaths, noExt, sideVars>>

\* The state of the programs that are not running: the escaping of the DOT
\* text, the API cache, and the aijoin and aisplit tools.
SideIdle ==
  /\ dotArgs = <<>>
  /\ dotText = <<>>
  /\ useCache = FALSE
  /\ cacheFiles = <<>>
  /\ calls = <<>>
  /\ files = <<>>
  /\ flagArgs = <<>>
  /\ stdout = <<>>
  /\ extracted = <<>>

Keys == DOMAIN modulesFoundInOwners
Deps(p) == IF p \in Keys THEN modulesFoundInOwners[p].Deps ELSE {}
IsForkRec(p) == p \in Keys /\ modulesFoundInOwners[p].Fetched /\ modulesFoundInOwners[p].IsFork
IsNonForkRec(p) == p \in Keys /\ modulesFoundInOwners[p].Fetched /\ ~modulesFoundInOwners[p].IsFork

Init ==
  /\ \E m \in ModuleMaps :
       /\ modulesFoundInOwners = ScanResult(m)
       /\ repoList = ReposOf(ScanResult(m))
       /\ repoIdx = Len(ReposOf(ScanResult(m))) + 1
       /\ allModulePaths = AllModulePaths(ScanResult(m))
  /\ noExt \in BOOLEAN
  /\ pc = "pass1"
  /\ todo = {}
  /\ nodesToGraph = {}
  /\ referencedModules = {}
  /\ forksDependingOnNonFork = {}
  /\ bidirPairs = <<>>
  /\ isBidirNode = {}
  /\ nodesInCycles = {}
  /\ initialInDegree = <<>>
  /\ reverseAdj = <<>>
  /\ iteration = 0
  /\ runningInDegree = <<>>
  /\ queue = <<>>
  /\ processedNodes = {}
  /\ processedForOutput = {}
  /\ levelCounter = 0
  /\ output = <<>>
  /\ unprocessed = {}
  /\ dotNodes = <<>>
  /\ dotEdges = <<>>
  /\ SideIdle

\* ---- determineNodesToGraph ----
Pass1Nodes == {p \in Keys : IsNonForkRec(p)}
Pass1Referenced == UNION {Deps(p) : p \in Pass1Nodes}

Pass1 ==
  /\ pc = "pass1"
  /\ nodesToGraph' = Pass1Nodes
  /\ referencedModules' = Pass1Referenced
  /\ pc' = "pass2"
  /\ UNCHANGED <<inputs, todo, forksDependingOnNonFork, bidirVars, cycleVars, levelVars, dotVars>>

DependsOnIncludedNonFork(p) ==
  \E d \in Deps(p) : d \in nodesToGraph /\ d \in Keys /\ ~modulesFoundInOwners[d].IsFork

\* The records whose pass 3 loop body is not skipped by its guard; the
\* iterations over the other records do nothing and are not steps.
Pass3Records == {p \in Keys : IsForkRec(p)}

Pass2 ==
  /\ pc = "pass2"
  /\ forksDependingOnNonFork' = {p \in Keys : IsForkRec(p) /\ DependsOnIncludedNonFork(p)}
  /\ todo' = Pass3Records
  /\ pc' = IF Pass3Records = {} THEN "pass4" ELSE "pass3"
  /\ UNCHANGED <<inputs, nodesToGraph, referencedModules, bidirVars, cycleVars, levelVars, dotVars>>

\* Faulty variant of the pass 3 loop body: a fork is included only when it
\* both depends on an included non-fork and is referenced.
Pass3StepBoth(p, st) ==
  IF IsForkRec(p) /\ (p \in forksDependingOnNonFork /\ p \in st.ref)
  THEN [nodes |-> st.nodes \cup {p}, ref |-> st.ref \cup Deps(p)]
  ELSE st

\* One visit of the pass 3 loop body (graph_output.go 211-232) on the
\* working sets st = [nodes, ref].
Pass3Step(p, st) ==
  IF IsForkRec(p) /\ (p \in forksDependingOnNonFork \/ p \in st.ref)
  THEN [nodes |-> st.nodes \cup {p}, ref |-> st.ref \cup Deps(p)]
  ELSE st

Pass3Visit ==
  /\ pc = "pass3"
  /\ \E p \in todo :
       LET st == Pass3Step(p, [nodes |-> nodesToGraph, ref |-> referencedModules]) IN
       /\ todo' = todo \ {p}
       /\ nodesToGraph' = st.nodes
       /\ referencedModules' = st.ref
       /\ pc' = IF todo' = {} THEN "pass4" ELSE "pass3"
  /\ UNCHANGED <<inputs, forksDependingOnNonFork, bidirVars, cycleVars, levelVars, dotVars>>

\* Faulty variant of pass 4: the externals are added whatever noExt says.
Pass4ExternalsAlways(ref) ==
  {p \in allModulePaths : p \notin Keys /\ p \in ref}

\* Faulty variant of pass 4: every known path without a record is added,
\* referenced or not.
Pass4ExternalsAllKnown(ref) ==
  IF noExt THEN {}
  ELSE {p \in allModulePaths : p \notin Keys}

Pass4Externals(ref) ==
  IF noExt THEN {}
  ELSE {p \in allModulePaths : p \notin Keys /\ p \in ref}

\* Faulty variant of pass 4: with noExt the forks that were included only
\* because they are referenced are taken out of the node set again.
Pass4DroppingReferencedForks ==
  /\ pc = "pass4"
  /\ nodesToGraph' =
       IF noExt
       THEN {p \in nodesToGraph : ~IsForkRec(p) \/ p \in forksDependingOnNonFork}
       ELSE nodesToGraph \cup Pass4Externals(referencedModules)
  /\ pc' = "nodes"
  /\ UNCHANGED <<inputs, todo, referencedModules, forksDependingOnNonFork, bidirVars, cycleVars, levelVars, dotVars>>

Pass4 ==
  /\ pc = "pass4"
  /\ nodesToGraph' = nodesToGraph \cup Pass4Externals(referencedModules)
  /\ pc' = "nodes"
  /\ UNCHANGED <<inputs, todo, referencedModules, forksDependingOnNonFork, bidirVars, cycleVars, levelVars, dotVars>>

\* ---- buildReverseGraphAndDetectCycles ----
\* Edge sources are the records that are nodes; targets are nodes.
\* Faulty variant of the source selection: a fork that is a node only by
\* reference is not a source of edges.
SourcesQualified(nodes) ==
  {s \in Keys : s \in nodes /\ (IsNonForkRec(s) \/ s \in forksDependingOnNonFork)}

Sources(nodes) == {s \in Keys : s \in nodes}

ReverseAdj(nodes) ==
  [d \in nodes |-> {s \in Sources(nodes) : d \in Deps(s)}]

\* Faulty variant of the in-degree count: every declared dependency is
\* counted, whether or not it is a node.
InDegreeAllDeps(nodes) ==
  [n \in nodes |-> Cardinality(Deps(n))]

\* Faulty variant of the in-degree count: a source with dependencies among
\* the nodes gets in-degree one, however many it has.
InDegreeCapped(nodes) ==
  [n \in nodes |-> IF {d \in Deps(n) : d \in nodes} = {} THEN 0 ELSE 1]

InDegree(nodes) ==
  [n \in nodes |-> Cardinality({d \in Deps(n) : d \in nodes})]

\* Faulty variant of the queue loop: only the first dependent of the popped
\* node is decremented.
RECURSIVE KahnLoopFirstNeighbor(_, _, _, _)
KahnLoopFirstNeighbor(q, temp, count, radj) ==
  IF q = <<>> THEN [temp |-> temp, count |-> count]
  ELSE LET u == Head(q)
           neighbors == IF radj[u] = {} THEN {} ELSE {Min(radj[u])}
           temp2 == [n \in DOMAIN temp |-> IF n \in neighbors THEN temp[n] - 1 ELSE temp[n]]
           freed == {v \in neighbors : temp2[v] = 0}
       IN KahnLoopFirstNeighbor(SortStrings(Range(Tail(q)) \cup freed), temp2, count + 1, radj)

\* The queue loop of Kahn's algorithm: pop the head, decrement every
\* dependent, append the ones that reach zero, re-sort the queue.
RECURSIVE KahnLoop(_, _, _, _)
KahnLoop(q, temp, count, radj) ==
  IF q = <<>> THEN [temp |-> temp, count |-> count]
  ELSE LET u == Head(q)
           neighbors == radj[u]
           temp2 == [n \in DOMAIN temp |-> IF n \in neighbors THEN temp[n] - 1 ELSE temp[n]]
           freed == {v \in neighbors : temp2[v] = 0}
       IN KahnLoop(SortStrings(Range(Tail(q)) \cup freed), temp2, count + 1, radj)

\* Faulty variant of the leftover test: only the nodes left with more than
\* one unprocessed dependency are candidates.
DetectCyclesHighDegree(nodes) ==
  LET inDeg == InDegree(nodes)
      k == KahnLoop(SortStrings({n \in nodes : inDeg[n] = 0}), inDeg, 0, ReverseAdj(nodes))
  IN IF k.count < Cardinality(nodes) THEN {n \in nodes : k.temp[n] > 1} ELSE {}

DetectCycles(nodes) ==
  LET inDeg == InDegree(nodes)
      k == KahnLoop(SortStrings({n \in nodes : inDeg[n] = 0}), inDeg, 0, ReverseAdj(nodes))
  IN IF k.count < Cardinality(nodes) THEN {n \in nodes : k.temp[n] > 0} ELSE {}

\* ---- isNodeDependedOn / filterOutUnusedNodes ----
\* Faulty variant of isNodeDependedOn: the dependents outside the current
\* cycle set count too.
isNodeDependedOnByAny(node, currentNodesInCycles) ==
  \E p \in Keys : node \in modulesFoundInOwners[p].Deps

\* Faulty variant of isNodeDependedOn: one dependent in the current cycle
\* set is not enough, two are asked for.
isNodeDependedOnTwice(node, currentNodesInCycles) ==
  Cardinality({p \in Keys : /\ modulesFoundInOwners[p].Path \in currentNodesInCycles
                            /\ node \in modulesFoundInOwners[p].Deps}) >= 2

isNodeDependedOn(node, currentNodesInCycles) ==
  \E p \in Keys :
     /\ modulesFoundInOwners[p].Path \in currentNodesInCycles
     /\ node \in modulesFoundInOwners[p].Deps

\* Faulty variant of the removal round: the dependency test is dropped and
\* the first candidate is removed, one per round.
NodesToRemoveFirst(cur) == IF cur = {} THEN {} ELSE {Min(cur)}

NodesToRemove(cur) == {n \in cur : ~isNodeDependedOn(n, cur)}

RECURSIVE FilterLoop(_)
FilterLoop(cur) ==
  IF NodesToRemove(cur) = {} THEN cur ELSE FilterLoop(cur \ NodesToRemove(cur))

filterOutUnusedNodes(cand) == IF cand = {} THEN cand ELSE FilterLoop(cand)

\* ---- performTopologicalSortAndPrint: bidirectional side-table ----
Put(f, k, v) == [x \in DOMAIN f \cup {k} |-> IF x = k THEN v ELSE f[x]]

DependsBack(s, dep, nodes) ==
  /\ dep \in nodes
  /\ dep \in Keys
  /\ modulesFoundInOwners[dep].Path \in nodes
  /\ s \in modulesFoundInOwners[dep].Deps

\* The iterations of the outer loop that write the tables: the source is a
\* node and one of its dependencies depends back on it.  The other
\* iterations change nothing and are not steps.
BidirSources(nodes) == {s \in Sources(nodes) : \E dep \in Deps(s) : DependsBack(s, dep, nodes)}

\* Faulty variant of the inner loop: the pair is stored under the larger of
\* the two paths.
RECURSIVE ScanDepsLargerKey(_, _, _, _)
ScanDepsLargerKey(s, order, st, nodes) ==
  IF order = <<>> THEN st
  ELSE LET dep == Head(order)
           st2 == IF DependsBack(s, dep, nodes)
                  THEN [bp |-> IF s < dep THEN Put(st.bp, dep, s) ELSE Put(st.bp, s, dep),
                        bn |-> st.bn \cup {s, dep}]
                  ELSE st
       IN ScanDepsLargerKey(s, Tail(order), st2, nodes)

\* The inner loop over info.Deps of source s, visited in the given order;
\* st = [bp, bn] are bidirPairs and isBidirNode.
RECURSIVE ScanDeps(_, _, _, _)
ScanDeps(s, order, st, nodes) ==
  IF order = <<>> THEN st
  ELSE LET dep == Head(order)
           st2 == IF DependsBack(s, dep, nodes)
                  THEN [bp |-> IF s < dep THEN Put(st.bp, s, dep) ELSE Put(st.bp, dep, s),
                        bn |-> st.bn \cup {s, dep}]
                  ELSE st
       IN ScanDeps(s, Tail(order), st2, nodes)

ScanSource(s, order, st, nodes) ==
  IF s \notin nodes THEN st ELSE ScanDeps(s, order, st, nodes)

TopoStart ==
  /\ pc = "nodes"
  /\ todo' = BidirSources(nodesToGraph)
  /\ pc' = IF BidirSources(nodesToGraph) = {} THEN "detect" ELSE "bidir"
  /\ UNCHANGED <<inputs, nodesToGraph, referencedModules, forksDependingOnNonFork,
                 bidirVars, cycleVars, levelVars, dotVars>>

BidirVisit ==
  /\ pc = "bidir"
  /\ \E s \in todo : \E order \in Orders(Deps(s)) :
       LET st == ScanSource(s, order, [bp |-> bidirPairs, bn |-> isBidirNode], nodesToGraph) IN
       /\ todo' = todo \ {s}
       /\ bidirPairs' = st.bp
       /\ isBidirNode' = st.bn
       /\ pc' = IF todo' = {} THEN "detect" ELSE "bidir"
  /\ UNCHANGED <<inputs, nodesToGraph, referencedModules, forksDependingOnNonFork,
                 cycleVars, levelVars, dotVars>>

BuildReverseGraphAndDetectCycles ==
  /\ pc = "detect"
  /\ nodesInCycles' = DetectCycles(nodesToGraph)
  /\ initialInDegree' = InDegree(nodesToGraph)
  /\ reverseAdj' = ReverseAdj(nodesToGraph)
  /\ iteration' = 0
  /\ pc' = "refine"
  /\ UNCHANGED <<inputs, detVars, bidirVars, levelVars, dotVars>>

\* One iteration of the `for changed` loop; the call returns at once on an
\* empty candidate set.
FilterIteration ==
  /\ pc = "refine"
  /\ IF iteration = 0 /\ nodesInCycles = {}
     THEN /\ pc' = "setup"
          /\ UNCHANGED <<nodesInCycles, iteration>>
     ELSE /\ iteration' = iteration + 1
          /\ nodesInCycles' = nodesInCycles \ NodesToRemove(nodesInCycles)
          /\ pc' = IF NodesToRemove(nodesInCycles) = {} THEN "setup" ELSE "refine"
  /\ UNCHANGED <<inputs, detVars, bidirVars, initialInDegree, reverseAdj, levelVars, dotVars>>

\* ---- formatNodeForTopo / printLevel ----
\* The printed text of a node: the module path, or for a fork the repository
\* path followed by the fork annotation.
formatNodeForTopo(nodePath) ==
  IF nodePath \in Keys /\ modulesFoundInOwners[nodePath].IsFork
  THEN LET info == modulesFoundInOwners[nodePath] IN
       IF info.OriginalModulePath # NoPath
       THEN IF info.Path = info.OriginalModulePath
            THEN [fmt |-> "%s (fork of %s)", a |-> info.RepoPath,
                  b |-> info.OriginalModulePath, c |-> NoPath]
            ELSE [fmt |-> "%s (%s fork of %s)", a |-> info.RepoPath,
                  b |-> info.Path, c |-> info.OriginalModulePath]
       ELSE [fmt |-> "%s (fork)", a |-> info.RepoPath, b |-> NoPath, c |-> NoPath]
  ELSE [fmt |-> "%s", a |-> nodePath, b |-> NoPath, c |-> NoPath]

\* The loop over the sorted level: st = [entries, pfo] are the printed
\* entries and processedForOutput.
RECURSIVE PrintEntries(_, _, _, _)
PrintEntries(sorted, levelSet, bp, st) ==
  IF sorted = <<>> THEN st
  ELSE LET nodePath == Head(sorted) IN
       IF nodePath \in st.pfo THEN PrintEntries(Tail(sorted), levelSet, bp, st)
       ELSE IF nodePath \in DOMAIN bp /\ bp[nodePath] \in levelSet
       THEN PrintEntries(Tail(sorted), levelSet, bp,
              [entries |-> Append(st.entries,
                             [ids |-> <<nodePath, bp[nodePath]>>,
                              text |-> <<formatNodeForTopo(nodePath),
                                         formatNodeForTopo(bp[nodePath])>>]),
               pfo |-> st.pfo \cup {nodePath, bp[nodePath]}])
       ELSE PrintEntries(Tail(sorted), levelSet, bp,
              [entries |-> Append(st.entries,
                             [ids |-> <<nodePath>>,
                              text |-> <<formatNodeForTopo(nodePath)>>]),
               pfo |-> st.pfo \cup {nodePath}])

\* printLevel: st = [out, pfo]; an empty level prints nothing.
printLevel(levelNodes, levelIndex, bp, st, levelName) ==
  IF levelNodes = <<>> THEN st
  ELSE LET r == PrintEntries(SortStrings(Range(levelNodes)), Range(levelNodes), bp,
                             [entries |-> <<>>, pfo |-> st.pfo])
       IN [out |-> Append(st.out, [index |-> levelIndex, name |-> levelName,
                                   nodes |-> levelNodes, entries |-> r.entries]),
           pfo |-> r.pfo]

\* ---- performTopologicalSortAndPrint: the three phases ----
KahnSetup ==
  /\ pc = "setup"
  /\ runningInDegree' = initialInDegree
  /\ queue' = SortStrings({n \in DOMAIN initialInDegree :
                             initialInDegree[n] = 0 /\ n \notin nodesInCycles})
  /\ processedNodes' = {}
  /\ processedForOutput' = {}
  /\ levelCounter' = 0
  /\ pc' = "pre"
  /\ UNCHANGED <<inputs, detVars, bidirVars, cycleVars, output, unprocessed, dotVars>>

\* Faulty variant of the loop over the dependents of u: a dependent joins the
\* next level as soon as one of its dependencies is emitted.
RECURSIVE VisitNeighborsEager(_, _, _, _)
VisitNeighborsEager(neighbors, st, pre, cyc) ==
  IF neighbors = <<>> THEN st
  ELSE LET v == Head(neighbors) IN
       IF v \notin st.proc /\ (~pre \/ v \notin cyc)
       THEN LET run2 == [st.run EXCEPT ![v] = @ - 1] IN
            VisitNeighborsEager(Tail(neighbors),
              [st EXCEPT !.run = run2,
                         !.next = IF v \notin Range(@) THEN Append(@, v) ELSE @],
              pre, cyc)
       ELSE VisitNeighborsEager(Tail(neighbors), st, pre, cyc)

\* Faulty variant of the loop over the dependents of u: a dependent joins the
\* next level when its count drops below zero instead of reaching zero.
RECURSIVE VisitNeighborsBelowZero(_, _, _, _)
VisitNeighborsBelowZero(neighbors, st, pre, cyc) ==
  IF neighbors = <<>> THEN st
  ELSE LET v == Head(neighbors) IN
       IF v \notin st.proc /\ (~pre \/ v \notin cyc)
       THEN LET run2 == [st.run EXCEPT ![v] = @ - 1] IN
            VisitNeighborsBelowZero(Tail(neighbors),
              [st EXCEPT !.run = run2,
                         !.next = IF run2[v] < 0 THEN Append(@, v) ELSE @],
              pre, cyc)
       ELSE VisitNeighborsBelowZero(Tail(neighbors), st, pre, cyc)

\* The loop over the dependents of u; st = [cur, next, run, proc].  In the
\* pre-cycle phase (pre) cycle nodes are not decremented.
RECURSIVE VisitNeighbors(_, _, _, _)
VisitNeighbors(neighbors, st, pre, cyc) ==
  IF neighbors = <<>> THEN st
  ELSE LET v == Head(neighbors) IN
       IF v \notin st.proc /\ (~pre \/ v \notin cyc)
       THEN LET run2 == [st.run EXCEPT ![v] = @ - 1] IN
            VisitNeighbors(Tail(neighbors),
              [st EXCEPT !.run = run2,
                         !.next = IF run2[v] = 0 THEN Append(@, v) ELSE @],
              pre, cyc)
       ELSE VisitNeighbors(Tail(neighbors), st, pre, cyc)

\* The loop over the queue of one level.
RECURSIVE ProcessQueue(_, _, _, _, _)
ProcessQueue(q, st, pre, cyc, radj) ==
  IF q = <<>> THEN st
  ELSE LET u == Head(q) IN
       IF (pre /\ u \in cyc) \/ (~pre /\ u \in st.proc)
       THEN ProcessQueue(Tail(q), st, pre, cyc, radj)
       ELSE ProcessQueue(Tail(q),
              VisitNeighbors(SortStrings(radj[u]),
                [st EXCEPT !.cur = Append(@, u), !.proc = @ \cup {u}], pre, cyc),
              pre, cyc, radj)

ProcessLevel(pre) ==
  ProcessQueue(queue, [cur |-> <<>>, next |-> <<>>, run |-> runningInDegree,
                       proc |-> processedNodes], pre, nodesInCycles, reverseAdj)

EmitLevel(pre) ==
  LET st == ProcessLevel(pre)
      pl == printLevel(st.cur, levelCounter, bidirPairs,
                       [out |-> output, pfo |-> processedForOutput], "")
  IN /\ runningInDegree' = st.run
     /\ processedNodes' = st.proc
     /\ output' = pl.out
     /\ processedForOutput' = pl.pfo
     /\ queue' = SortStrings(Range(st.next))
     /\ levelCounter' = levelCounter + 1

PreCycleLevel ==
  /\ pc = "pre"
  /\ queue # <<>>
  /\ EmitLevel(TRUE)
  /\ UNCHANGED <<inputs, pc, detVars, bidirVars, cycleVars, unprocessed, dotVars>>

\* Faulty variant of the release of the cycle nodes' dependents: the test
\* that the dependent is not queued yet is inverted.
RECURSIVE ReleaseDependentsInverted(_, _, _)
ReleaseDependentsInverted(dependents, st, proc) ==
  IF dependents = <<>> THEN st
  ELSE LET d == Head(dependents) IN
       IF d \notin proc
       THEN LET run2 == [st.run EXCEPT ![d] = @ - 1] IN
            ReleaseDependentsInverted(Tail(dependents),
              [run |-> run2,
               q |-> IF run2[d] = 0 /\ d \in Range(st.q) THEN Append(st.q, d) ELSE st.q],
              proc)
       ELSE ReleaseDependentsInverted(Tail(dependents), st, proc)

\* Faulty variant of the release of the cycle nodes' dependents: a dependent
\* is queued at its first decrement, whatever in-degree it has left.
RECURSIVE ReleaseDependentsEager(_, _, _)
ReleaseDependentsEager(dependents, st, proc) ==
  IF dependents = <<>> THEN st
  ELSE LET d == Head(dependents) IN
       IF d \notin proc
       THEN LET run2 == [st.run EXCEPT ![d] = @ - 1] IN
            ReleaseDependentsEager(Tail(dependents),
              [run |-> run2,
               q |-> IF d \notin Range(st.q) THEN Append(st.q, d) ELSE st.q],
              proc)
       ELSE ReleaseDependentsEager(Tail(dependents), st, proc)

\* The loops over the cycle nodes and their dependents that prepare the
\* post-cycle queue; st = [q, run].
RECURSIVE ReleaseDependents(_, _, _)
ReleaseDependents(dependents, st, proc) ==
  IF dependents = <<>> THEN st
  ELSE LET d == Head(dependents) IN
       IF d \notin proc
       THEN LET run2 == [st.run EXCEPT ![d] = @ - 1] IN
            ReleaseDependents(Tail(dependents),
              [run |-> run2,
               q |-> IF run2[d] = 0 /\ d \notin Range(st.q) THEN Append(st.q, d) ELSE st.q],
              proc)
       ELSE ReleaseDependents(Tail(dependents), st, proc)

RECURSIVE ReleaseCycleNodes(_, _, _, _)
ReleaseCycleNodes(cycleNodesList, st, proc, radj) ==
  IF cycleNodesList = <<>> THEN st
  ELSE ReleaseCycleNodes(Tail(cycleNodesList),
         ReleaseDependents(SortStrings(radj[Head(cycleNodesList)]), st, proc), proc, radj)

\* Faulty variant of the cycle level: the cycle nodes are not marked as
\* processed before their dependents are released.
CycleLevelUnmarked ==
  /\ pc = "pre"
  /\ queue = <<>>
  /\ LET cycleNodesList == SortStrings(nodesInCycles)
         pl == printLevel(cycleNodesList, levelCounter, bidirPairs,
                          [out |-> output, pfo |-> processedForOutput], " (Cycles)")
         st == ReleaseCycleNodes(cycleNodesList, [q |-> <<>>, run |-> runningInDegree],
                                 processedNodes, reverseAdj)
     IN /\ UNCHANGED processedNodes
        /\ IF cycleNodesList # <<>>
           THEN /\ output' = pl.out
                /\ processedForOutput' = pl.pfo
                /\ runningInDegree' = st.run
                /\ queue' = SortStrings(Range(st.q))
                /\ levelCounter' = levelCounter + 1
           ELSE UNCHANGED <<output, processedForOutput, runningInDegree, queue, levelCounter>>
  /\ pc' = "post"
  /\ UNCHANGED <<inputs, detVars, bidirVars, cycleVars, unprocessed, dotVars>>

CycleLevel ==
  /\ pc = "pre"
  /\ queue = <<>>
  /\ LET cycleNodesList == SortStrings(nodesInCycles)
         proc == processedNodes \cup nodesInCycles
         pl == printLevel(cycleNodesList, levelCounter, bidirPairs,
                          [out |-> output, pfo |-> processedForOutput], " (Cycles)")
         st == ReleaseCycleNodes(cycleNodesList, [q |-> <<>>, run |-> runningInDegree],
                                 proc, reverseAdj)
     IN /\ processedNodes' = proc
        /\ IF cycleNodesList # <<>>
           THEN /\ output' = pl.out
                /\ processedForOutput' = pl.pfo
                /\ runningInDegree' = st.run
                /\ queue' = SortStrings(Range(st.q))
                /\ levelCounter' = levelCounter + 1
           ELSE UNCHANGED <<output, processedForOutput, runningInDegree, queue, levelCounter>>
  /\ pc' = "post"
  /\ UNCHANGED <<inputs, detVars, bidirVars, cycleVars, unprocessed, dotVars>>

PostCycleLevel ==
  /\ pc = "post"
  /\ queue # <<>>
  /\ EmitLevel(FALSE)
  /\ UNCHANGED <<inputs, pc, detVars, bidirVars, cycleVars, unprocessed, dotVars>>

FinalCheck ==
  /\ pc = "post"
  /\ queue = <<>>
  /\ unprocessed' = IF Cardinality(processedNodes) # Cardinality(nodesToGraph)
                    THEN {n \in nodesToGraph : n \notin processedNodes}
                    ELSE {}
  /\ pc' = "sorted"
  /\ UNCHANGED <<inputs, detVars, bidirVars, cycleVars, runningInDegree, queue,
                 processedNodes, processedForOutput, levelCounter, output, dotVars>>

\* ---- generateDotOutput ----
orgNonForkColors == <<"lightblue", "lightgreen", "lightsalmon", "lightgoldenrodyellow", "lightpink">>
orgForkColors == <<"steelblue", "darkseagreen", "coral", "darkkhaki", "mediumvioletred">>
externalColor == "lightgrey"
cycleColor == "red"

\* One node definition line, or <<>> when the node is skipped.
NodeDefinition(nodePath, cyc) ==
  IF nodePath \in Keys
  THEN LET info == modulesFoundInOwners[nodePath] IN
       IF ~info.IsFork
       THEN <<[id |-> nodePath,
               label |-> [fmt |-> "%s", a |-> nodePath, b |-> NoPath],
               fillcolor |-> orgNonForkColors[(info.OwnerIdx % Len(orgNonForkColors)) + 1],
               color |-> IF nodePath \in cyc THEN cycleColor ELSE ""]>>
       ELSE <<[id |-> nodePath,
               label |-> IF info.OriginalModulePath # NoPath
                         THEN [fmt |-> "%s\\n(fork of %s)", a |-> info.RepoPath,
                               b |-> info.OriginalModulePath]
                         ELSE [fmt |-> "%s\\n(fork)", a |-> info.RepoPath, b |-> NoPath],
               fillcolor |-> orgForkColors[(info.OwnerIdx % Len(orgForkColors)) + 1],
               color |-> IF nodePath \in cyc THEN cycleColor ELSE ""]>>
  ELSE IF noExt THEN <<>>
  ELSE <<[id |-> nodePath,
          label |-> [fmt |-> "%s", a |-> nodePath, b |-> NoPath],
          fillcolor |-> externalColor,
          color |-> IF nodePath \in cyc THEN cycleColor ELSE ""]>>

RECURSIVE NodeDefinitions(_, _)
NodeDefinitions(sortedNodes, cyc) ==
  IF sortedNodes = <<>> THEN <<>>
  ELSE NodeDefinition(Head(sortedNodes), cyc) \o NodeDefinitions(Tail(sortedNodes), cyc)

RECURSIVE EdgesOf(_, _, _, _)
EdgesOf(sourceModPath, depPaths, nodes, cyc) ==
  IF depPaths = <<>> THEN <<>>
  ELSE LET depPath == Head(depPaths) IN
       (IF depPath \in nodes
        THEN <<[from |-> sourceModPath, to |-> depPath,
                color |-> IF sourceModPath \in cyc /\ depPath \in cyc
                          THEN cycleColor ELSE ""]>>
        ELSE <<>>)
       \o EdgesOf(sourceModPath, Tail(depPaths), nodes, cyc)

RECURSIVE EdgeLines(_, _, _)
EdgeLines(sourceModulesInGraph, nodes, cyc) ==
  IF sourceModulesInGraph = <<>> THEN <<>>
  ELSE EdgesOf(Head(sourceModulesInGraph),
               SortStrings(Deps(Head(sourceModulesInGraph))), nodes, cyc)
       \o EdgeLines(Tail(sourceModulesInGraph), nodes, cyc)

\* Faulty variant of generateDotOutput: the dependencies that are not nodes
\* are deleted from the records instead of being skipped.
GenerateDotOutputPruning ==
  /\ pc = "nodes"
  /\ LET nodesInCyclesSet == filterOutUnusedNodes(DetectCycles(nodesToGraph)) IN
     /\ dotNodes' = NodeDefinitions(SortStrings(nodesToGraph), nodesInCyclesSet)
     /\ dotEdges' = EdgeLines(SortStrings(Sources(nodesToGraph)), nodesToGraph,
                              nodesInCyclesSet)
  /\ modulesFoundInOwners' =
       [p \in Keys |-> [modulesFoundInOwners[p] EXCEPT !.Deps = @ \cap nodesToGraph]]
  /\ pc' = "dot"
  /\ UNCHANGED <<repoList, repoIdx, allModulePaths, noExt, sideVars, detVars, bidirVars, cycleVars, levelVars>>

GenerateDotOutput ==
  /\ pc = "nodes"
  /\ LET nodesInCyclesSet == filterOutUnusedNodes(DetectCycles(nodesToGraph)) IN
     /\ dotNodes' = NodeDefinitions(SortStrings(nodesToGraph), nodesInCyclesSet)
     /\ dotEdges' = EdgeLines(SortStrings(Sources(nodesToGraph)), nodesToGraph,
                              nodesInCyclesSet)
  /\ pc' = "dot"
  /\ UNCHANGED <<inputs, detVars, bidirVars, cycleVars, levelVars>>

Next == Pass1 \/ Pass2 \/ Pass3Visit \/ Pass4 \/ GenerateDotOutput
          \/ TopoStart \/ BidirVisit
          \/ BuildReverseGraphAndDetectCycles \/ FilterIteration
          \/ KahnSetup \/ PreCycleLevel \/ CycleLevel \/ PostCycleLevel \/ FinalCheck

Spec == Init /\ [][Next]_vars

\* ---- fork-free scans of WideIds modules ----
\* Every module has a record and none is a fork, so pass 3 visits nothing
\* and pass 4 adds nothing; the sort is followed up to the refined cycle set.
WideIds == 5
WideEdges == 6

WideIdSet == 1..WideIds
WideEdgeSets ==
  {E \in SUBSET {e \in WideIdSet \X WideIdSet : e[1] # e[2]} : Cardinality(E) <= WideEdges}

WideScan(E) == [p \in WideIdSet |-> ModuleInfo(p, FALSE, {e[2] : e \in {x \in E : x[1] = p}})]

InitCycles ==
  /\ \E E \in WideEdgeSets :
       /\ modulesFoundInOwners = WideScan(E)
       /\ repoList = ReposOf(WideScan(E))
       /\ repoIdx = Len(ReposOf(WideScan(E))) + 1
       /\ allModulePaths = AllModulePaths(WideScan(E))
  /\ noExt = FALSE
  /\ pc = "pass1"
  /\ todo = {}
  /\ nodesToGraph = {}
  /\ referencedModules = {}
  /\ forksDependingOnNonFork = {}
  /\ bidirPairs = <<>>
  /\ isBidirNode = {}
  /\ nodesInCycles = {}
  /\ initialInDegree = <<>>
  /\ reverseAdj = <<>>
  /\ iteration = 0
  /\ runningInDegree = <<>>
  /\ queue = <<>>
  /\ processedNodes = {}
  /\ processedForOutput = {}
  /\ levelCounter = 0
  /\ output = <<>>
  /\ unprocessed = {}
  /\ dotNodes = <<>>
  /\ dotEdges = <<>>
  /\ SideIdle

NextCycles == Pass1 \/ Pass2 \/ Pass4 \/ TopoStart \/ BidirVisit
                \/ BuildReverseGraphAndDetectCycles \/ FilterIteration

SpecCycles == InitCycles /\ [][NextCycles]_vars

\* ---- fork-free scans of SortIds modules, sorted or drawn to the end ----
SortIds == 4
SortEdges == 5

SortIdSet == 1..SortIds
SortEdgeSets ==
  {E \in SUBSET {e \in SortIdSet \X SortIdSet : e[1] # e[2]} : Cardinality(E) <= SortEdges}

SortScan(E) == [p \in SortIdSet |-> ModuleInfo(p, FALSE, {e[2] : e \in {x \in E : x[1] = p}})]

InitNoForks ==
  /\ \E E \in SortEdgeSets :
       /\ modulesFoundInOwners = SortScan(E)
       /\ repoList = ReposOf(SortScan(E))
       /\ repoIdx = Len(ReposOf(SortScan(E))) + 1
       /\ allModulePaths = AllModulePaths(SortScan(E))
  /\ noExt = FALSE
  /\ pc = "pass1"
  /\ todo = {}
  /\ nodesToGraph = {}
  /\ referencedModules = {}
  /\ forksDependingOnNonFork = {}
  /\ bidirPairs = <<>>
  /\ isBidirNode = {}
  /\ nodesInCycles = {}
  /\ initialInDegree = <<>>
  /\ reverseAdj = <<>>
  /\ iteration = 0
  /\ runningInDegree = <<>>
  /\ queue = <<>>
  /\ processedNodes = {}
  /\ processedForOutput = {}
  /\ levelCounter = 0
  /\ output = <<>>
  /\ unprocessed = {}
  /\ dotNodes = <<>>
  /\ dotEdges = <<>>
  /\ SideIdle

NextNoForks == Pass1 \/ Pass2 \/ Pass4 \/ GenerateDotOutput
                 \/ TopoStart \/ BidirVisit
                 \/ BuildReverseGraphAndDetectCycles \/ FilterIteration
                 \/ KahnSetup \/ PreCycleLevel \/ CycleLevel \/ PostCycleLevel \/ FinalCheck

SpecNoForks == InitNoForks /\ [][NextNoForks]_vars

\* ---- main: the scan of the owners' repositories ----
\* A repository that yields no record (archived, no go.mod, unparsable, empty
\* module path) has Path = NoPath; repositories are named by their position.
ScanLen == 3
ScanPaths == 2

ScanPathSet == 1..ScanPaths
DepChoices == {{}, {ScanPaths + 1}}
Repos(i) ==
  {[RepoPath |-> i, Path |-> r.Path, IsFork |-> r.IsFork, Deps |-> r.Deps] :
     r \in [Path : {NoPath} \cup ScanPathSet, IsFork : BOOLEAN, Deps : DepChoices]}

currentInfo(repo) ==
  [ModuleInfo(repo.Path, repo.IsFork, repo.Deps) EXCEPT !.RepoPath = repo.RepoPath]

\* Faulty variant of the collision handling: the record seen last is stored.
StoreLastSeen(mods, cur) == Put(mods, cur.Path, cur)

\* Store the record, or resolve the collision with the one already stored.
StoreModuleInfo(mods, cur) ==
  IF cur.Path \notin DOMAIN mods THEN Put(mods, cur.Path, cur)
  ELSE LET existingInfo == mods[cur.Path] IN
       IF ~existingInfo.IsFork /\ cur.IsFork THEN mods
       ELSE IF existingInfo.IsFork /\ ~cur.IsFork THEN Put(mods, cur.Path, cur)
       ELSE mods

\* One iteration of the repo loop, on the repository the listing gives next.
ScanRepo ==
  /\ pc = "scan"
  /\ repoIdx <= ScanLen
  /\ \E repo \in Repos(repoIdx) :
       /\ repoList' = Append(repoList, repo)
       /\ IF repo.Path = NoPath
          THEN UNCHANGED <<modulesFoundInOwners, allModulePaths>>
          ELSE /\ allModulePaths' = allModulePaths \cup {repo.Path} \cup repo.Deps
               /\ modulesFoundInOwners' = StoreModuleInfo(modulesFoundInOwners, currentInfo(repo))
  /\ repoIdx' = repoIdx + 1
  /\ UNCHANGED <<pc, noExt, sideVars, detVars, bidirVars, cycleVars, levelVars, dotVars>>

\* The listing is exhausted: the scan ends.
ScanEnd ==
  /\ pc = "scan"
  /\ pc' = "pass1"
  /\ UNCHANGED <<inputs, detVars, bidirVars, cycleVars, levelVars, dotVars>>

InitScan ==
  /\ repoList = <<>>
  /\ repoIdx = 1
  /\ modulesFoundInOwners = <<>>
  /\ allModulePaths = {}
  /\ noExt \in BOOLEAN
  /\ pc = "scan"
  /\ todo = {}
  /\ nodesToGraph = {}
  /\ referencedModules = {}
  /\ forksDependingOnNonFork = {}
  /\ bidirPairs = <<>>
  /\ isBidirNode = {}
  /\ nodesInCycles = {}
  /\ initialInDegree = <<>>
  /\ reverseAdj = <<>>
  /\ iteration = 0
  /\ runningInDegree = <<>>
  /\ queue = <<>>
  /\ processedNodes = {}
  /\ processedForOutput = {}
  /\ levelCounter = 0
  /\ output = <<>>
  /\ unprocessed = {}
  /\ dotNodes = <<>>
  /\ dotEdges = <<>>
  /\ SideIdle

NextScan == ScanRepo \/ ScanEnd

SpecScan == InitScan /\ [][NextScan]_vars

\* The state of the graph pipeline when another program is the one running.
GraphIdle ==
  /\ repoList = <<>>
  /\ repoIdx = 1
  /\ modulesFoundInOwners = <<>>
  /\ allModulePaths = {}
  /\ noExt = FALSE
  /\ todo = {}
  /\ nodesToGraph = {}
  /\ referencedModules = {}
  /\ forksDependingOnNonFork = {}
  /\ bidirPairs = <<>>
  /\ isBidirNode = {}
  /\ nodesInCycles = {}
  /\ initialInDegree = <<>>
  /\ reverseAdj = <<>>
  /\ iteration = 0
  /\ runningInDegree = <<>>
  /\ queue = <<>>
  /\ processedNodes = {}
  /\ processedForOutput = {}
  /\ levelCounter = 0
  /\ output = <<>>
  /\ unprocessed = {}
  /\ dotNodes = <<>>
  /\ dotEdges = <<>>

graphVars == <<repoList, repoIdx, modulesFoundInOwners, allModulePaths, noExt,
               detVars, bidirVars, cycleVars, levelVars, dotVars>>

\* ---- the text of the DOT lines, character by character ----
\* Strings are sequences of characters; a module path, a repository path and
\* a version are drawn from the strings over a letter and the double quote.
MaxStr == 2
Chars == {"a", "\""}
Strs == UNION {[1..k -> Chars] : k \in 0..MaxStr}
PathStrs == Strs \ {<<>>}

\* strings.ReplaceAll(s, old, new) for a one-character old.
RECURSIVE ReplaceAll(_, _, _)
ReplaceAll(s, old, new) ==
  IF s = <<>> THEN <<>>
  ELSE (IF Head(s) = old THEN new ELSE <<Head(s)>>) \o ReplaceAll(Tail(s), old, new)

\* The records a node path can have: none, a non-fork, or a fork with its
\* repository path and the original module path (empty when unknown).
DotInfos ==
  {[found |-> FALSE, IsFork |-> FALSE, RepoPath |-> <<>>, OriginalModulePath |-> <<>>]}
  \cup {[found |-> TRUE, IsFork |-> FALSE, RepoPath |-> r, OriginalModulePath |-> <<>>] :
          r \in PathStrs}
  \cup {[found |-> TRUE, IsFork |-> TRUE, RepoPath |-> r, OriginalModulePath |-> o] :
          r \in PathStrs, o \in Strs}

DotLabel(nodePath, info) ==
  IF info.found /\ info.IsFork
  THEN IF info.OriginalModulePath # <<>>
       THEN info.RepoPath \o <<"\\", "n", "(fork of ">> \o info.OriginalModulePath \o <<")">>
       ELSE info.RepoPath \o <<"\\", "n", "(fork)">>
  ELSE nodePath

DotColor(info) ==
  IF ~info.found THEN externalColor
  ELSE IF info.IsFork THEN orgForkColors[1] ELSE orgNonForkColors[1]

\* The quoted values of one node line: identifier, label and fill colour.
DotNodeLine ==
  /\ pc = "dotgen"
  /\ \E info \in DotInfos :
       dotText' = <<[attr |-> "id", value |-> dotArgs.nodePath],
                    [attr |-> "label",
                     value |-> ReplaceAll(DotLabel(dotArgs.nodePath, info), "\"", <<"\\", "\"">>)],
                    [attr |-> "fillcolor", value |-> <<DotColor(info)>>]>>
  /\ pc' = "emitted"
  /\ UNCHANGED <<graphVars, dotArgs, useCache, cacheFiles, calls, files, flagArgs, stdout, extracted>>

\* The quoted values of one edge line: the two endpoints and the version.
DotEdgeLine ==
  /\ pc = "dotgen"
  /\ dotText' = <<[attr |-> "from", value |-> dotArgs.nodePath],
                  [attr |-> "to", value |-> dotArgs.depPath],
                  [attr |-> "label",
                   value |-> ReplaceAll(dotArgs.version, "\"", <<"\\", "\"">>)]>>
  /\ pc' = "emitted"
  /\ UNCHANGED <<graphVars, dotArgs, useCache, cacheFiles, calls, files, flagArgs, stdout, extracted>>

InitDot ==
  /\ GraphIdle
  /\ pc = "dotgen"
  /\ dotArgs \in [nodePath : PathStrs, depPath : PathStrs, version : Strs]
  /\ dotText = <<>>
  /\ useCache = FALSE
  /\ cacheFiles = <<>>
  /\ calls = <<>>
  /\ files = <<>>
  /\ flagArgs = <<>>
  /\ stdout = <<>>
  /\ extracted = <<>>

NextDot == DotNodeLine \/ DotEdgeLine

SpecDot == InitDot /\ [][NextDot]_vars

\* ---- the cached GetContents call of the GitHub client wrapper ----
\* The calls made in one run are bounded; a request is (owner, repo, path,
\* ref); "nil" stands for a nil pointer, a nil slice or a nil error.
MaxCalls == 3
CacheRequests == [owner : {"o1", "o2"}, repo : {"r"}, path : {"go.mod"}, ref : {""}]

\* What Repositories.GetContents can answer: a file, a directory listing, a
\* not-found error, another error, or nothing at all.
ApiAnswers ==
  {[fileContent |-> c, dirContent |-> "nil", err |-> "nil"] : c \in {"c1", "c2"}}
  \cup {[fileContent |-> "nil", dirContent |-> "dir", err |-> "nil"],
        [fileContent |-> "nil", dirContent |-> "nil", err |-> "404"],
        [fileContent |-> "nil", dirContent |-> "nil", err |-> "500"],
        [fileContent |-> "nil", dirContent |-> "nil", err |-> "nil"]}

isNotFoundError(err) == err \in {"404", "403"}

\* The file name of a cache entry: every part followed by the separator
\* (the name is the hash of this string).
RECURSIVE getCacheKey(_)
getCacheKey(parts) ==
  IF parts = <<>> THEN <<>> ELSE <<Head(parts), "|">> \o getCacheKey(Tail(parts))

\* json.MarshalIndent and json.Unmarshal of a CachedContentResponse.
Marshal(data) ==
  [Found |-> IF data.Found THEN "true" ELSE "false",
   FileContent |-> IF data.FileContent = "nil" THEN "null" ELSE <<data.FileContent>>]

Unmarshal(json) ==
  [Found |-> json.Found = "true",
   FileContent |-> IF json.FileContent = "null" THEN "nil" ELSE json.FileContent[1]]

\* Faulty variant of readCache: the file is never looked at.
readCacheNoFile(key, disk, use) ==
  [hit |-> FALSE, data |-> [Found |-> FALSE, FileContent |-> "nil"]]

\* readCache: a miss when caching is off or the file does not exist.  The
\* files on disk are the ones writeCache wrote, which read and parse.
readCache(key, disk, use) ==
  IF ~use \/ key \notin DOMAIN disk
  THEN [hit |-> FALSE, data |-> [Found |-> FALSE, FileContent |-> "nil"]]
  ELSE [hit |-> TRUE, data |-> Unmarshal(disk[key])]

\* writeCache: nothing is written when caching is off.
writeCache(key, data, disk, use) ==
  IF ~use THEN disk ELSE Put(disk, key, Marshal(data))

\* What one call returns and leaves on disk; api is the answer the API gives
\* if it is asked.
GetContentsCall(req, api) ==
  LET cacheKey == getCacheKey(<<"GetContents", req.owner, req.repo, req.path, req.ref>>)
      r == readCache(cacheKey, cacheFiles, useCache)
      notFound == [Found |-> FALSE, FileContent |-> "nil"]
  IN IF r.hit
     THEN [req |-> req, apiRequest |-> FALSE, disk |-> cacheFiles,
           fileContent |-> IF r.data.Found THEN r.data.FileContent ELSE "nil",
           dirContent |-> "nil", err |-> "nil"]
     ELSE IF api.err # "nil"
     THEN [req |-> req, apiRequest |-> TRUE,
           disk |-> IF isNotFoundError(api.err)
                    THEN writeCache(cacheKey, notFound, cacheFiles, useCache)
                    ELSE cacheFiles,
           fileContent |-> "nil", dirContent |-> "nil", err |-> api.err]
     ELSE [req |-> req, apiRequest |-> TRUE,
           disk |-> IF api.fileContent # "nil"
                    THEN writeCache(cacheKey,
                                    [Found |-> TRUE, FileContent |-> api.fileContent],
                                    cacheFiles, useCache)
                    ELSE IF api.dirContent # "nil"
                    THEN writeCache(cacheKey, notFound, cacheFiles, useCache)
                    ELSE cacheFiles,
           fileContent |-> api.fileContent, dirContent |-> api.dirContent, err |-> "nil"]

getCachedGetContents ==
  /\ pc = "client"
  /\ Len(calls) < MaxCalls
  /\ \E req \in CacheRequests : \E api \in ApiAnswers :
       LET c == GetContentsCall(req, api) IN
         /\ cacheFiles' = c.disk
         /\ calls' = Append(calls, [req |-> c.req, apiRequest |-> c.apiRequest,
                                    wrote |-> c.disk # cacheFiles,
                                    fileContent |-> c.fileContent,
                                    dirContent |-> c.dirContent, err |-> c.err])
  /\ UNCHANGED <<graphVars, pc, dotArgs, dotText, useCache, files, flagArgs, stdout, extracted>>

InitCache ==
  /\ GraphIdle
  /\ pc = "client"
  /\ useCache \in BOOLEAN
  /\ cacheFiles = <<>>
  /\ calls = <<>>
  /\ dotArgs = <<>>
  /\ dotText = <<>>
  /\ files = <<>>
  /\ flagArgs = <<>>
  /\ stdout = <<>>
  /\ extracted = <<>>

NextCache == getCachedGetContents

SpecCache == InitCache /\ [][NextCache]_vars

\* ---- aijoin and aisplit ----
\* A line is a sequence of pieces of text: a blank, the two comment openers
\* the tools look for, or other text; a file is a sequence of lines and a
\* file name is a line without blanks.
MaxLines == 2
headerSeparator == <<"// =====", "===">>
headerPrefix == <<"// File:", " ">>
fileMarkerPrefix == <<"// File:", " ">>
separatorPrefix == <<"// =====">>

FileNames == {<<"f1">>, <<"f2">>}
LineSet == {<<>>, <<"x">>, <<"// =====", "x">>, <<"// File:", " ", "f2">>,
            <<" ", "// File:", " ", "f2">>}
FileContents == UNION {[1..k -> LineSet] : k \in 0..MaxLines}
Disks == UNION {[D -> FileContents] : D \in SUBSET FileNames \ {{}}}
ArgLists ==
  FileNames \cup {args \in {a \o b : a \in FileNames, b \in FileNames} : args[1] # args[2]}

\* strings.TrimSpace, strings.HasPrefix and strings.TrimPrefix.
RECURSIVE TrimLeft(_)
TrimLeft(s) == IF s # <<>> /\ Head(s) = " " THEN TrimLeft(Tail(s)) ELSE s

RECURSIVE TrimRight(_)
TrimRight(s) ==
  IF s # <<>> /\ s[Len(s)] = " " THEN TrimRight(SubSeq(s, 1, Len(s) - 1)) ELSE s

TrimSpace(s) == TrimRight(TrimLeft(s))
HasPrefix(s, prefix) == Len(s) >= Len(prefix) /\ SubSeq(s, 1, Len(prefix)) = prefix
TrimPrefix(s, prefix) ==
  IF HasPrefix(s, prefix) THEN SubSeq(s, Len(prefix) + 1, Len(s)) ELSE s

\* aijoin: for every argument the header, a blank line, the lines of the
\* file and a blank line; a file that does not open leaves its header only.
RECURSIVE JoinFiles(_, _)
JoinFiles(names, disk) ==
  IF names = <<>> THEN <<>>
  ELSE LET filename == <<Head(names)>>
           header == <<headerSeparator, headerPrefix \o <<" ">> \o filename,
                       headerSeparator, <<>>>>
       IN header
          \o (IF filename \in DOMAIN disk THEN disk[filename] \o << <<>> >> ELSE <<>>)
          \o JoinFiles(Tail(names), disk)

aijoin ==
  /\ pc = "aijoin"
  /\ stdout' = JoinFiles(flagArgs, files)
  /\ pc' = "aisplit"
  /\ UNCHANGED <<graphVars, dotArgs, dotText, useCache, cacheFiles, calls, files, flagArgs,
                 extracted>>

\* Faulty variant of the scanner loop of aisplit: the marker line is written
\* to the file it opens.
SplitLineKeepingMarker(st, line) ==
  LET trimmedLine == TrimSpace(line) IN
  IF HasPrefix(trimmedLine, fileMarkerPrefix)
  THEN LET filename == TrimSpace(TrimPrefix(line, fileMarkerPrefix)) IN
       IF filename = <<>>
       THEN [st EXCEPT !.currentFile = "nil", !.writing = FALSE]
       ELSE [currentFile |-> filename, currentFilename |-> filename, writing |-> TRUE,
             disk |-> Put(st.disk, filename, <<line>>)]
  ELSE IF HasPrefix(trimmedLine, separatorPrefix) THEN st
  ELSE IF st.writing /\ st.currentFile # "nil"
  THEN [st EXCEPT !.disk = Put(@, st.currentFile, Append(@[st.currentFile], line))]
  ELSE st

\* One round of the scanner loop of aisplit; st = [currentFile,
\* currentFilename, writing, disk].
SplitLine(st, line) ==
  LET trimmedLine == TrimSpace(line) IN
  IF HasPrefix(trimmedLine, fileMarkerPrefix)
  THEN LET filename == TrimSpace(TrimPrefix(line, fileMarkerPrefix)) IN
       IF filename = <<>>
       THEN [st EXCEPT !.currentFile = "nil", !.writing = FALSE]
       ELSE [currentFile |-> filename, currentFilename |-> filename, writing |-> TRUE,
             disk |-> Put(st.disk, filename, <<>>)]
  ELSE IF HasPrefix(trimmedLine, separatorPrefix) THEN st
  ELSE IF st.writing /\ st.currentFile # "nil"
  THEN [st EXCEPT !.disk = Put(@, st.currentFile, Append(@[st.currentFile], line))]
  ELSE st

RECURSIVE SplitLines(_, _)
SplitLines(st, lines) ==
  IF lines = <<>> THEN st ELSE SplitLines(SplitLine(st, Head(lines)), Tail(lines))

\* What gofumpt -w leaves when it rewrites a file: no empty line at the
\* start or the end, and no two empty lines in a row.
RECURSIVE DropBlankHead(_)
DropBlankHead(lines) ==
  IF lines # <<>> /\ Head(lines) = <<>> THEN DropBlankHead(Tail(lines)) ELSE lines

RECURSIVE DropBlankTail(_)
DropBlankTail(lines) ==
  IF lines # <<>> /\ lines[Len(lines)] = <<>>
  THEN DropBlankTail(SubSeq(lines, 1, Len(lines) - 1)) ELSE lines

RECURSIVE Squeeze(_)
Squeeze(lines) ==
  IF Len(lines) < 2 THEN lines
  ELSE IF lines[1] = <<>> /\ lines[2] = <<>> THEN Squeeze(Tail(lines))
  ELSE <<Head(lines)>> \o Squeeze(Tail(lines))

\* runGoFumpt: the file is rewritten, or left alone when the command fails.
runGoFumpt(lines, formats) ==
  IF formats THEN DropBlankTail(Squeeze(DropBlankHead(lines))) ELSE lines

\* aisplit over the whole input; every file it closed went through gofumpt,
\* which rewrote the files in formatted and failed on the others.
aisplit ==
  /\ pc = "aisplit"
  /\ LET st == SplitLines([currentFile |-> "nil", currentFilename |-> <<>>,
                           writing |-> FALSE, disk |-> <<>>], stdout)
     IN \E formatted \in SUBSET DOMAIN st.disk :
          extracted' = [n \in DOMAIN st.disk |->
                          runGoFumpt(st.disk[n], n \in formatted)]
  /\ pc' = "split"
  /\ UNCHANGED <<graphVars, dotArgs, dotText, useCache, cacheFiles, calls, files, flagArgs,
                 stdout>>

InitJoin ==
  /\ GraphIdle
  /\ pc = "aijoin"
  /\ files \in Disks
  /\ flagArgs \in ArgLists
  /\ stdout = <<>>
  /\ extracted = <<>>
  /\ dotArgs = <<>>
  /\ dotText = <<>>
  /\ useCache = FALSE
  /\ cacheFiles = <<>>
  /\ calls = <<>>

NextJoin == aijoin \/ aisplit

SpecJoin == InitJoin /\ [][NextJoin]_vars

\* ---- vocabulary of the properties ----
DepsIn(n, nodes) == {d \in Deps(n) : d \in nodes}

RECURSIVE ReachFrom(_, _, _)
ReachFrom(frontier, seen, nodes) ==
  IF frontier = {} THEN seen
  ELSE LET new == (UNION {DepsIn(n, nodes) : n \in frontier}) \ seen
       IN ReachFrom(new, seen \cup new, nodes)

\* The nodes reachable from n along one or more dependency edges inside nodes.
Reachable(n, nodes) == ReachFrom({n}, {}, nodes)
OnCycle(n, nodes) == n \in Reachable(n, nodes)
Acyclic(nodes) == \A n \in nodes : ~OnCycle(n, nodes)

Max(S) == CHOOSE x \in S : \A y \in S : y <= x

\* Length of the longest dependency chain below n (defined on acyclic graphs).
RECURSIVE Height(_, _)
Height(n, nodes) ==
  IF DepsIn(n, nodes) = {} THEN 0
  ELSE 1 + Max({Height(d, nodes) : d \in DepsIn(n, nodes)})

LevelsOf(n) == {i \in DOMAIN output : n \in Range(output[i].nodes)}
Leveling == pc \in {"pre", "post", "sorted"}
DotIds == {dotNodes[i].id : i \in DOMAIN dotNodes}
DotEndpoints == {dotEdges[i].from : i \in DOMAIN dotEdges}
                  \cup {dotEdges[i].to : i \in DOMAIN dotEdges}
LevelIds == UNION {Range(output[i].nodes) : i \in DOMAIN output}
EntryIdsOf(level) == UNION {Range(level.entries[j].ids) : j \in DOMAIN level.entries}
EntryIds == UNION {EntryIdsOf(output[i]) : i \in DOMAIN output}

\* C1: for every edge "a depends on b" between nodes outside the refined
\* cycle set, b is emitted in a level whose index is strictly smaller than
\* the index of the level in which a is emitted.
C1_DependencyBeforeDependent ==
  Leveling =>
    \A a \in Sources(nodesToGraph) : \A b \in DepsIn(a, nodesToGraph) :
      (a \notin nodesInCycles /\ b \notin nodesInCycles) =>
        /\ \A i \in LevelsOf(a) : \E j \in LevelsOf(b) : output[j].index < output[i].index
        /\ pc = "sorted" => LevelsOf(a) # {} /\ LevelsOf(b) # {}

C1_Witness ==
  /\ pc = "sorted"
  /\ \E a \in Sources(nodesToGraph) : \E b \in DepsIn(a, nodesToGraph) :
       /\ a \notin nodesInCycles /\ b \notin nodesInCycles
       /\ \E c \in DepsIn(b, nodesToGraph) : c \notin nodesInCycles
       /\ \E i \in LevelsOf(a) : output[i].index = 2

\* C2: when the sort finishes every node of the node set has been emitted in
\* exactly one level, once, and the processed-node count equals the node count.
C2_EveryNodeInExactlyOneLevel ==
  /\ \A n \in Ids : Cardinality(LevelsOf(n)) <= 1
  /\ \A i \in DOMAIN output :
       Cardinality(Range(output[i].nodes)) = Len(output[i].nodes)
  /\ pc = "sorted" =>
       /\ \A n \in nodesToGraph : Cardinality(LevelsOf(n)) = 1
       /\ LevelIds = nodesToGraph
       /\ unprocessed = {}
       /\ Cardinality(processedNodes) = Cardinality(nodesToGraph)

C2_Witness ==
  /\ pc = "sorted"
  /\ Cardinality(nodesToGraph) = NumIds
  /\ nodesInCycles # {}
  /\ \E i \in DOMAIN output : output[i].name = " (Cycles)" /\ i < Len(output)

\* C3: for a fixed record map and node set the leveled text does not depend
\* on the order in which the record map and the dependency maps are
\* visited: re-rendering the emitted levels with the side-table of any
\* other visiting order gives the same headers and entries.
RECURSIVE BidirTables(_, _, _)
BidirTables(remaining, st, nodes) ==
  IF remaining = {} THEN {st.bp}
  ELSE UNION {BidirTables(remaining \ {so[1]}, ScanSource(so[1], so[2], st, nodes), nodes) :
                so \in UNION {{<<s, order>> : order \in Orders(Deps(s))} : s \in remaining}}

RECURSIVE Rerender(_, _, _)
Rerender(levels, bp, st) ==
  IF levels = <<>> THEN st.out
  ELSE Rerender(Tail(levels), bp,
                printLevel(Head(levels).nodes, Head(levels).index, bp, st, Head(levels).name))

C3_LeveledTextDeterministic ==
  pc = "sorted" =>
    \A bp \in BidirTables(BidirSources(nodesToGraph), [bp |-> <<>>, bn |-> {}], nodesToGraph) :
      Rerender(output, bp, [out |-> <<>>, pfo |-> {}]) = output

\* C4: the node set returned by determineNodesToGraph does not depend on the
\* order in which pass 3 visits the record map.
RECURSIVE Pass3Fold(_, _)
Pass3Fold(order, st) ==
  IF order = <<>> THEN st ELSE Pass3Fold(Tail(order), Pass3Step(Head(order), st))

NodesUnderOrder(order) ==
  LET st == Pass3Fold(order, [nodes |-> Pass1Nodes, ref |-> Pass1Referenced])
  IN st.nodes \cup Pass4Externals(st.ref)

C4_NodeSetDeterministic ==
  pc = "nodes" => \A order \in Orders(Pass3Records) : NodesUnderOrder(order) = nodesToGraph

\* C5: two primary records a < b whose only edges are a -> b and b -> a give
\* exactly one level, labeled "(Cycles)", with the single entry "a <-> b".
TwoNodeCycle(a, b) ==
  /\ a < b
  /\ nodesToGraph = {a, b}
  /\ IsNonForkRec(a) /\ IsNonForkRec(b)
  /\ DepsIn(a, nodesToGraph) = {b}
  /\ DepsIn(b, nodesToGraph) = {a}

C5_TwoNodeCycleIsOneCycleLevel ==
  \A a, b \in Ids :
    (pc = "sorted" /\ TwoNodeCycle(a, b)) =>
      output = << [index |-> 0, name |-> " (Cycles)", nodes |-> <<a, b>>,
                   entries |-> << [ids |-> <<a, b>>,
                                   text |-> <<formatNodeForTopo(a), formatNodeForTopo(b)>>] >>] >>

C5_Witness ==
  pc = "sorted" /\ \E a, b \in Ids : TwoNodeCycle(a, b) /\ Len(output) = 1

\* C6: with noExt set, no module path without a record is a node definition,
\* an edge endpoint, a level member or a level entry.
C6_NoExternalWithNoExt ==
  noExt => /\ DotIds \subseteq Keys
           /\ DotEndpoints \subseteq Keys
           /\ LevelIds \subseteq Keys
           /\ EntryIds \subseteq Keys

C6_Witness ==
  /\ noExt
  /\ pc = "dot"
  /\ \E s \in DotIds : \E d \in Deps(s) : d \notin Keys
  /\ dotEdges # <<>>

\* C7: with noExt set, a fork that is a node only because its path is
\* referenced (it does not depend on a non-fork) is in neither output.
ReferencedOnlyFork(f) ==
  IsForkRec(f) /\ f \in nodesToGraph /\ f \notin forksDependingOnNonFork

C7_ReferencedOnlyForkDropped ==
  \A f \in Ids :
    (noExt /\ pc \in {"dot", "sorted"} /\ ReferencedOnlyFork(f)) =>
      /\ f \notin DotIds
      /\ f \notin DotEndpoints
      /\ f \notin LevelIds

\* C8: without noExt, a fork whose only dependency has no record appears in
\* the output styled as an external node: the flat external colour and its
\* own path as label.
OnlyDependsOnExternal(f) ==
  IsForkRec(f) /\ Cardinality(Deps(f)) = 1 /\ \A d \in Deps(f) : d \notin Keys

C8_ForkOfExternalStyledExternal ==
  \A f \in Ids :
    (~noExt /\ OnlyDependsOnExternal(f)) =>
      /\ pc = "dot" =>
           \E i \in DOMAIN dotNodes :
             /\ dotNodes[i].id = f
             /\ dotNodes[i].fillcolor = externalColor
             /\ dotNodes[i].label = [fmt |-> "%s", a |-> f, b |-> NoPath]
      /\ pc = "sorted" =>
           \E i \in DOMAIN output : \E j \in DOMAIN output[i].entries :
             /\ f \in Range(output[i].entries[j].ids)
             /\ \E k \in DOMAIN output[i].entries[j].ids :
                  /\ output[i].entries[j].ids[k] = f
                  /\ output[i].entries[j].text[k] = [fmt |-> "%s", a |-> f, b |-> NoPath, c |-> NoPath]

\* C9: on an acyclic node set the level index of a node is the length of the
\* longest dependency chain below it.
C9_LevelIsLongestChain ==
  (pc = "sorted" /\ Acyclic(nodesToGraph)) =>
    \A n \in nodesToGraph :
      /\ LevelsOf(n) # {}
      /\ \A i \in LevelsOf(n) : output[i].index = Height(n, nodesToGraph)

C9_Witness ==
  /\ pc = "sorted"
  /\ Acyclic(nodesToGraph)
  /\ \E n \in nodesToGraph : Height(n, nodesToGraph) = 2
  /\ Len(output) = 3

\* C10: after detection and refinement every member of the cycle set lies on
\* a directed dependency cycle.
C10_RefinedSetOnlyCycleMembers ==
  pc \in {"setup", "pre", "post", "sorted"} =>
    \A n \in nodesInCycles : OnCycle(n, nodesToGraph)

\* C11: the members of the refined cycle set are emitted together in one
\* level named "(Cycles)"; there is at most one such level, it comes after
\* the levels of every node that does not reach a cycle node, and no other
\* level holds a cycle node.
CycleLevels == {i \in DOMAIN output : output[i].name = " (Cycles)"}
ReachesNoCycleNode(n) ==
  n \notin nodesInCycles /\ Reachable(n, nodesToGraph) \cap nodesInCycles = {}

C11_CycleMembersInOneCycleLevel ==
  Leveling =>
    /\ Cardinality(CycleLevels) <= 1
    /\ \A i \in CycleLevels :
         /\ Range(output[i].nodes) = nodesInCycles \cap nodesToGraph
         /\ \A n \in nodesToGraph :
              ReachesNoCycleNode(n) => \E j \in LevelsOf(n) : j < i
    /\ \A i \in DOMAIN output \ CycleLevels :
         Range(output[i].nodes) \cap nodesInCycles = {}
    /\ (pc \in {"post", "sorted"} /\ nodesInCycles # {}) => CycleLevels # {}

C11_Witness ==
  /\ pc = "sorted"
  /\ \E i \in CycleLevels : i > 1 /\ Len(output[i].nodes) = 2
  /\ \E n \in nodesToGraph : ReachesNoCycleNode(n)

\* C12: a node emitted in a level after the "(Cycles)" level has every
\* dependency that is a node in a strictly earlier level, and at least one of
\* them in the level just before its own.
AfterCycleLevel(i) == \E c \in CycleLevels : c < i

C12_PostCycleDependenciesEarlier ==
  Leveling =>
    \A i \in DOMAIN output : AfterCycleLevel(i) =>
      \A n \in Range(output[i].nodes) :
        /\ \A d \in DepsIn(n, nodesToGraph) : \E j \in LevelsOf(d) : j < i
        /\ \E d \in DepsIn(n, nodesToGraph) : (i - 1) \in LevelsOf(d)
        /\ output[i].index = output[i - 1].index + 1

C12_Witness ==
  /\ pc = "sorted"
  /\ \E i \in DOMAIN output :
       /\ AfterCycleLevel(i)
       /\ (i - 1) \notin CycleLevels
       /\ \E n \in Range(output[i].nodes) :
            \E d \in DepsIn(n, nodesToGraph) : d \in nodesInCycles

\* C13: the record stored for a module path is the one of the first scanned
\* non-fork repository declaring it, or of the first scanned fork when no
\* non-fork declared it.
Declaring(p) == {i \in 1..(repoIdx - 1) : repoList[i].Path = p}
NonForksDeclaring(p) == {i \in Declaring(p) : ~repoList[i].IsFork}
Preferred(p) == IF NonForksDeclaring(p) # {} THEN Min(NonForksDeclaring(p)) ELSE Min(Declaring(p))

C13_FirstNonForkElseFirstFork ==
  \A p \in ScanPathSet :
    IF Declaring(p) = {} THEN p \notin Keys
    ELSE p \in Keys /\ modulesFoundInOwners[p] = currentInfo(repoList[Preferred(p)])

C13_Witness ==
  /\ pc = "pass1"
  /\ \E p \in ScanPathSet :
       /\ Cardinality(Declaring(p)) = 3
       /\ Cardinality(NonForksDeclaring(p)) = 2
       /\ Preferred(p) = 2

\* C14: no step of determineNodesToGraph, of the cycle detection and
\* refinement, of generateDotOutput or of performTopologicalSortAndPrint
\* changes the record map, a record's fields or its dependency map.
C14_RecordsNeverMutated ==
  [][modulesFoundInOwners' = modulesFoundInOwners]_vars

C14_Witness ==
  /\ pc \in {"dot", "sorted"}
  /\ \E p \in Keys : IsForkRec(p) /\ Deps(p) \ nodesToGraph # {}
  /\ \E p \in Keys : IsNonForkRec(p) /\ Deps(p) \cap nodesToGraph # {}

\* C15: the nodes the reduction of buildReverseGraphAndDetectCycles leaves
\* over are exactly the nodes on a directed dependency cycle.
Detected == pc = "refine" /\ iteration = 0

C15_LeftoversAreCycleNodes ==
  Detected => nodesInCycles = {n \in nodesToGraph : OnCycle(n, nodesToGraph)}

\* C15 as amended: the leftovers are exactly the nodes that lie on a cycle or
\* reach one along dependency edges.
ReachesCycle(n) ==
  OnCycle(n, nodesToGraph) \/ \E m \in Reachable(n, nodesToGraph) : OnCycle(m, nodesToGraph)

C15_LeftoversReachCycle ==
  Detected => nodesInCycles = {n \in nodesToGraph : ReachesCycle(n)}

C15_Witness ==
  /\ Detected
  /\ \E n \in nodesInCycles : ~OnCycle(n, nodesToGraph)
  /\ \E n \in nodesToGraph : n \notin nodesInCycles

\* C16: filterOutUnusedNodes returns the fixed point of the removal rule:
\* every remaining candidate is a dependency of another remaining candidate,
\* and the result is the largest subset of the initial candidates with that
\* property.
Refined == pc \in {"setup", "pre", "post", "sorted"}
DependedOnWithin(S) == \A n \in S : \E m \in S \ {n} : n \in Deps(m)

C17_RefinementShrinksAndIsBounded ==
  [][pc = "refine" =>
       /\ nodesInCycles' \subseteq nodesInCycles
       /\ iteration' <= Cardinality(DetectCycles(nodesToGraph))]_vars

C17_Witness ==
  /\ pc = "setup"
  /\ iteration >= 3
  /\ iteration = Cardinality(DetectCycles(nodesToGraph)) - 1

\* C18: during the pre-cycle, cycle and post-cycle phases the running
\* in-degree of every node stays at or above zero.
C18_RunningInDegreeNeverNegative ==
  Leveling => \A n \in DOMAIN runningInDegree : runningInDegree[n] >= 0

C18_Witness ==
  /\ pc = "sorted"
  /\ \E n \in nodesToGraph \ nodesInCycles :
       /\ Cardinality(DepsIn(n, nodesToGraph) \cap nodesInCycles) >= 2
       /\ runningInDegree[n] = 0

\* C19: every non-fork record is a node, and so is every fork record that
\* depends on a non-fork record or is a dependency of one, whatever noExt is.
NodesDetermined == pc \notin {"scan", "pass1", "pass2", "pass3", "pass4"}
DependsOnNonFork(p) == \E d \in Deps(p) : IsNonForkRec(d)
ReferencedByNonFork(p) == \E q \in Keys : IsNonForkRec(q) /\ p \in Deps(q)

C19_QualifiedRecordsAreNodes ==
  NodesDetermined =>
    \A p \in Keys :
      /\ IsNonForkRec(p) => p \in nodesToGraph
      /\ (IsForkRec(p) /\ (DependsOnNonFork(p) \/ ReferencedByNonFork(p))) => p \in nodesToGraph

C19_Witness ==
  /\ pc = "nodes"
  /\ noExt
  /\ \E p \in Keys : IsForkRec(p) /\ DependsOnNonFork(p) /\ ~ReferencedByNonFork(p)
                       /\ p \in nodesToGraph
  /\ \E p \in Keys : IsForkRec(p) /\ ~DependsOnNonFork(p) /\ ReferencedByNonFork(p)
                       /\ p \in nodesToGraph

\* C20: a path without a record is a node exactly when noExt is false, the
\* path is known and some record that is a node depends on it; such a node
\* is the source of no edge.
ReferencedByNode(e) == \E r \in Keys : r \in nodesToGraph /\ e \in Deps(r)

C20_ExternalNodesAreReferencedLeaves ==
  NodesDetermined =>
    \A e \in Ids \ Keys :
      /\ e \in nodesToGraph <=> (~noExt /\ e \in allModulePaths /\ ReferencedByNode(e))
      /\ \A i \in DOMAIN dotEdges : dotEdges[i].from # e
      /\ \A d \in DOMAIN reverseAdj : e \notin reverseAdj[d]
      /\ e \in DOMAIN initialInDegree => initialInDegree[e] = 0

C20_Witness ==
  /\ pc = "dot"
  /\ ~noExt
  /\ \E e \in Ids \ Keys :
       /\ e \in nodesToGraph
       /\ \A r \in Keys : e \in Deps(r) => IsForkRec(r)
       /\ \E i \in DOMAIN dotEdges : dotEdges[i].to = e

\* C21: during determineNodesToGraph the node set only grows: every step of
\* the four passes leaves a superset of the set it found.
C21_NodeSetOnlyGrows ==
  [][(pc \in {"pass1", "pass2", "pass3", "pass4"}) => (nodesToGraph \subseteq nodesToGraph')]_vars

C21_Witness ==
  /\ pc = "nodes"
  /\ \E p \in nodesToGraph : IsNonForkRec(p)
  /\ \E p \in nodesToGraph : IsForkRec(p) /\ p \notin forksDependingOnNonFork
  /\ \E p \in nodesToGraph : p \notin Keys

\* C22: once the side-table is built it holds every mutual dependency: for
\* nodes a < b that depend on each other, bidirPairs[a] = b.
TableBuilt == pc \in {"detect", "refine", "setup", "pre", "post", "sorted"}
Mutual(a, b) ==
  /\ a \in nodesToGraph /\ b \in nodesToGraph
  /\ a \in Keys /\ b \in Keys
  /\ b \in Deps(a) /\ a \in Deps(b)

C22_EveryMutualPairRecorded ==
  TableBuilt =>
    \A a, b \in Ids :
      (a < b /\ Mutual(a, b)) => (a \in DOMAIN bidirPairs /\ bidirPairs[a] = b)

\* C23: the DOT output declares every node of the rendered node set exactly
\* once, and has exactly one edge for every pair (source, target) where the
\* source's record lists the target and both are nodes, and no other edge;
\* in particular the edges of a fork included only by reference are there.
DeclarationsOf(n) == {i \in DOMAIN dotNodes : dotNodes[i].id = n}
EdgesBetween(s, t) == {i \in DOMAIN dotEdges : dotEdges[i].from = s /\ dotEdges[i].to = t}
ListedEdge(s, t) ==
  s \in Keys /\ s \in nodesToGraph /\ t \in Deps(s) /\ t \in nodesToGraph

C23_DotHasEveryNodeAndEdgeOnce ==
  pc = "dot" =>
    /\ \A n \in Ids : Cardinality(DeclarationsOf(n)) = IF n \in nodesToGraph THEN 1 ELSE 0
    /\ \A s, t \in Ids : Cardinality(EdgesBetween(s, t)) = IF ListedEdge(s, t) THEN 1 ELSE 0

C23_Witness ==
  /\ pc = "dot"
  /\ \E f \in Ids : \E t \in Ids :
       /\ ReferencedOnlyFork(f)
       /\ ListedEdge(f, t)
       /\ EdgesBetween(f, t) # {}

\* C24: in the DOT output no quoted value (node identifier, node label, edge
\* endpoints, edge version label) contains a double quote that is not
\* escaped by a backslash.
Unescaped(s) == \E i \in DOMAIN s : s[i] = "\"" /\ (i = 1 \/ s[i - 1] # "\\")

C24_EveryQuoteEscaped ==
  pc = "emitted" => \A i \in DOMAIN dotText : ~Unescaped(dotText[i].value)

\* C25: within every emitted level each identity of the level is rendered in
\* exactly one entry, alone or as one side of a pair; none is printed twice.
RenderingsOf(level, n) ==
  {<<j, k>> \in (DOMAIN level.entries) \X {1, 2} :
     k \in DOMAIN level.entries[j].ids /\ level.entries[j].ids[k] = n}

C25_EachIdentityRenderedOnce ==
  \A i \in DOMAIN output : \A n \in Range(output[i].nodes) :
    Cardinality(RenderingsOf(output[i], n)) = 1

\* C26: the refined cycle set is non-empty, and a "(Cycles)" level is
\* emitted, exactly when the dependency graph restricted to the node set has
\* a directed cycle; for an acyclic graph the output is the plain layered
\* leveling: level k holds, sorted, the nodes whose longest chain is k.
PlainLevel(k) ==
  LET levelNodes == SortStrings({n \in nodesToGraph : Height(n, nodesToGraph) = k})
  IN [index |-> k, name |-> "", nodes |-> levelNodes,
      entries |-> [j \in DOMAIN levelNodes |->
                     [ids |-> <<levelNodes[j]>>,
                      text |-> <<formatNodeForTopo(levelNodes[j])>>]]]

PlainLeveling ==
  IF nodesToGraph = {} THEN <<>>
  ELSE [i \in 1..(Max({Height(n, nodesToGraph) : n \in nodesToGraph}) + 1) |-> PlainLevel(i - 1)]

C26_CycleLevelIffCycle ==
  /\ Refined => (nodesInCycles # {} <=> ~Acyclic(nodesToGraph))
  /\ pc = "sorted" =>
       /\ CycleLevels # {} <=> ~Acyclic(nodesToGraph)
       /\ Acyclic(nodesToGraph) => output = PlainLeveling

C26_WitnessAcyclic ==
  /\ pc = "sorted"
  /\ Acyclic(nodesToGraph)
  /\ Len(output) = 3
  /\ \E i \in DOMAIN output : Len(output[i].nodes) = 1
  /\ \E p \in nodesToGraph : IsForkRec(p)

C26_Witness ==
  /\ pc = "sorted"
  /\ ~Acyclic(nodesToGraph)
  /\ CycleLevels # {}
  /\ \E n \in nodesToGraph : n \notin nodesInCycles

\* C27: the refinement never drops a member of a cycle: every node that lies
\* on a directed cycle of the node set is in the raw candidate set and stays
\* in the set through every removal round, up to the set that is returned.
CycleMembers == {n \in nodesToGraph : OnCycle(n, nodesToGraph)}

C27_CycleMembersSurviveRefinement ==
  (pc = "refine" \/ Refined) => CycleMembers \subseteq nodesInCycles

C27_Witness ==
  /\ pc = "setup"
  /\ CycleMembers # {}
  /\ iteration >= 2
  /\ DetectCycles(nodesToGraph) \ nodesInCycles # {}

\* C28: for every edge "x depends on b" where x is in the refined cycle set
\* and b is a node outside it, b is emitted in a level strictly before the
\* "(Cycles)" level.
LeavesCycleSet(x, b) ==
  /\ x \in nodesInCycles /\ x \in nodesToGraph
  /\ b \in DepsIn(x, nodesToGraph)
  /\ b \notin nodesInCycles

C28_CycleDependenciesBeforeCycleLevel ==
  pc = "sorted" =>
    \A x, b \in Ids :
      LeavesCycleSet(x, b) =>
        /\ CycleLevels # {}
        /\ \A c \in CycleLevels : \E j \in LevelsOf(b) : j < c

C28_Witness ==
  /\ pc = "sorted"
  /\ \E x, b \in Ids :
       /\ LeavesCycleSet(x, b)
       /\ \E j \in LevelsOf(b) : output[j].index = 1

\* C29 as claimed: with caching enabled, a call that follows a call for the
\* same (owner, repo, path, ref) that populated the cache makes no API
\* request and returns the same outcome: file content present or absent,
\* and error or no error.
Populates(i) == useCache /\ calls[i].wrote
Follows(i, j) == i < j /\ calls[i].req = calls[j].req /\ Populates(i)
Present(c) == c.fileContent # "nil"
Failed(c) == c.err # "nil"

C29_SecondCallSameOutcome ==
  \A i, j \in DOMAIN calls :
    Follows(i, j) =>
      /\ ~calls[j].apiRequest
      /\ Present(calls[j]) = Present(calls[i])
      /\ Failed(calls[j]) = Failed(calls[i])

\* C29 as amended: the later call makes no API request, returns the file
\* content of the populating call (present or absent alike) and no error; the
\* not-found error of the populating call is not returned again.
C29_SecondCallServedFromCache ==
  \A i, j \in DOMAIN calls :
    Follows(i, j) =>
      /\ ~calls[j].apiRequest
      /\ calls[j].fileContent = calls[i].fileContent
      /\ ~Failed(calls[j])

C29_Witness ==
  \E i, j \in DOMAIN calls :
    /\ Follows(i, j)
    /\ Failed(calls[i])
    /\ ~calls[j].apiRequest
    /\ calls[j].fileContent = "nil"

\* C30 as claimed: aisplit, fed the output of aijoin, recreates every joined
\* file none of whose lines starts with the "// File: " marker with exactly
\* its original sequence of lines.
Joined == {<<flagArgs[i]>> : i \in DOMAIN flagArgs} \cap DOMAIN files
NoMarkerLine(f) == \A i \in DOMAIN files[f] : ~HasPrefix(files[f][i], fileMarkerPrefix)

RECURSIVE NonEmptyLines(_)
NonEmptyLines(lines) ==
  IF lines = <<>> THEN <<>>
  ELSE (IF Head(lines) = <<>> THEN <<>> ELSE <<Head(lines)>>) \o NonEmptyLines(Tail(lines))

PlainLine(line) ==
  /\ ~HasPrefix(TrimSpace(line), fileMarkerPrefix)
  /\ ~HasPrefix(TrimSpace(line), separatorPrefix)
PlainFiles == \A f \in Joined : \A i \in DOMAIN files[f] : PlainLine(files[f][i])

====
